---- MODULE Spec2Model ----
(***************************************************************************)
(* The request lifecycle of src/request.rs: Request::read pulls one        *)
(* message from the channel, Request::dispatch gates it on the Session's   *)
(* state, routes it to one filesystem method and answers through           *)
(* Request::send / reply / reply_error.                                    *)
(*                                                                         *)
(* A message is the decoded content of the buffer (header fields and the   *)
(* fields of the opcode's argument record that dispatch reads).  The       *)
(* binary cursor, the Session type, the Filesystem trait and the Sendable  *)
(* trait live outside request.rs; the filesystem is the environment: each  *)
(* of its methods returns a nondeterministic Ok(value) or Err(errno).      *)
(* Lengths stay far below 2^31, so the u32 arithmetic of send and of the   *)
(* size fields is exact and is written without a modulus.                  *)
(***************************************************************************)
EXTENDS Integers, Sequences, FiniteSets, TLC

\* ------------------------------------------------------------------ bounds
\* hook-call counters stop growing here (guard of Dispatch)
MaxCalls == 3
\* longest extended-attribute value the filesystem returns
MaxValueLen == 2
\* largest buffer size a GETXATTR request asks for
MaxXattrSize == 2

\* ------------------------------------------------------- program constants
MAX_WRITE_SIZE == 16777216
InHeaderSize == 40
OutHeaderSize == 16
EIO == 5
ENOSYS == 38
EPROTO == 71
ERANGE == 34
\* size_of fuse_init_out, fuse_getxattr_out, fuse_write_out
InitOutSize == 24
GetxattrOutSize == 8
WriteOutSize == 8

INIT_FLAGS == {"FUSE_ASYNC_READ", "FUSE_CASE_INSENSITIVE"}

\* ---------------------------------------------------------------- opcodes
\* the arms of dispatch that are  self.reply(se.filesystem.M(...))  and the
\* method M each one calls
PlainDispatch ==
    [ FUSE_LOOKUP      |-> "lookup",     FUSE_GETATTR    |-> "getattr",
      FUSE_SETATTR     |-> "setattr",    FUSE_READLINK   |-> "readlink",
      FUSE_MKNOD       |-> "mknod",      FUSE_MKDIR      |-> "mkdir",
      FUSE_UNLINK      |-> "unlink",     FUSE_RMDIR      |-> "rmdir",
      FUSE_SYMLINK     |-> "symlink",    FUSE_RENAME     |-> "rename",
      FUSE_LINK        |-> "link",       FUSE_OPEN       |-> "open",
      FUSE_READ        |-> "read",       FUSE_FLUSH      |-> "flush",
      FUSE_RELEASE     |-> "release",    FUSE_FSYNC      |-> "fsync",
      FUSE_OPENDIR     |-> "opendir",    FUSE_READDIR    |-> "readdir",
      FUSE_RELEASEDIR  |-> "releasedir", FUSE_FSYNCDIR   |-> "fsyncdir",
      FUSE_STATFS      |-> "statfs",     FUSE_REMOVEXATTR |-> "removexattr",
      FUSE_ACCESS      |-> "access",     FUSE_BMAP       |-> "bmap",
      FUSE_SETVOLNAME  |-> "setvolname", FUSE_EXCHANGE   |-> "exchange",
      FUSE_GETXTIMES   |-> "getxtimes" ]

PlainOpcodes == DOMAIN PlainDispatch

\* opcodes of the protocol that dispatch has no arm for (its TODO comments)
UnhandledOpcodes == {"FUSE_INTERRUPT", "FUSE_CREATE", "FUSE_GETLK"}

SpecialOpcodes == {"FUSE_INIT", "FUSE_DESTROY", "FUSE_FORGET", "FUSE_WRITE",
                   "FUSE_SETXATTR", "FUSE_GETXATTR", "FUSE_LISTXATTR"}

Opcodes == PlainOpcodes \cup SpecialOpcodes \cup UnhandledOpcodes

\* --------------------------------------------------------------- messages
Uniques == {1, 2}

\* a decoded message: header.opcode, header.unique and the argument fields
\* dispatch reads (major, minor, max_readahead of fuse_init_in; size of
\* fuse_getxattr_in / fuse_setxattr_in / fuse_write_in; the length of the
\* trailing byte span of WRITE and SETXATTR; nlookup of fuse_forget_in)
Msg(op, u) ==
    [opcode |-> op, unique |-> u, major |-> 0, minor |-> 0,
     max_readahead |-> 0, size |-> 0, datalen |-> 0, nlookup |-> 0]

InitMsgs ==
    { [Msg("FUSE_INIT", u) EXCEPT !.major = v[1], !.minor = v[2],
                                  !.max_readahead = ra] :
        u \in Uniques,
        v \in {<<6, 8>>, <<7, 5>>, <<7, 8>>, <<8, 0>>},
        ra \in {0, 65536} }

ForgetMsgs ==
    { [Msg("FUSE_FORGET", u) EXCEPT !.nlookup = n] : u \in Uniques, n \in {1, 2} }

GetxattrMsgs ==
    { [Msg("FUSE_GETXATTR", u) EXCEPT !.size = s] :
        u \in Uniques, s \in 0..MaxXattrSize }

\* WRITE and SETXATTR carry a trailing byte span whose length the kernel
\* states in the size field of the argument record
SpanMsgs ==
    { [Msg(op, u) EXCEPT !.size = n, !.datalen = n] :
        op \in {"FUSE_WRITE", "FUSE_SETXATTR"}, u \in Uniques, n \in {0, 1} }

\* the same with a span that is not as long as the size field says
MalformedMsgs ==
    { [Msg(op, u) EXCEPT !.size = 1, !.datalen = d] :
        op \in {"FUSE_WRITE", "FUSE_SETXATTR"}, u \in Uniques, d \in {0, 2} }

OtherMsgs ==
    { Msg(op, u) :
        op \in PlainOpcodes \cup UnhandledOpcodes
                 \cup {"FUSE_DESTROY", "FUSE_LISTXATTR"},
        u \in Uniques }

Messages == InitMsgs \cup ForgetMsgs \cup GetxattrMsgs \cup SpanMsgs \cup OtherMsgs

NoMsg == [opcode |-> "none"]

\* ---------------------------------------------------- filesystem results
Ok(v) == [ok |-> v]
Err(e) == [err |-> e]
IsOk(res) == "ok" \in DOMAIN res

\* errno values a filesystem method fails with (ENOENT, EIO)
FsErrors == {2, 5}

\* reply values and the regions Sendable::as_iovecs splits them into
Unit == [kind |-> "unit"]
Bytes(n) == [kind |-> "bytes", len |-> n]
Struct(name, n) == [kind |-> name, len |-> n]

as_iovecs(data) ==
    CASE data.kind = "unit"    -> << >>
      [] data.kind = "dirbuf"  -> data.regions
      [] OTHER                 -> << data.len >>

\* what a plain filesystem method may return on success: nothing, a fixed
\* struct, a byte string, or a directory buffer of several regions
PlainValues ==
    { Unit, Struct("fuse_entry_out", 8), Bytes(3),
      [kind |-> "dirbuf", regions |-> <<2, 3>>] }

\* the results the filesystem method behind an opcode can return
FsResults(op) ==
    CASE op = "FUSE_INIT" ->
            {Ok(Unit)} \cup {Err(e) : e \in FsErrors}
      [] op \in {"FUSE_GETXATTR", "FUSE_LISTXATTR"} ->
            {Ok(Bytes(n)) : n \in 0..MaxValueLen} \cup {Err(e) : e \in FsErrors}
      [] op = "FUSE_WRITE" ->
            {Ok([kind |-> "written", n |-> 1])} \cup {Err(e) : e \in FsErrors}
      [] op \in PlainOpcodes \cup {"FUSE_SETXATTR"} ->
            {Ok(v) : v \in PlainValues} \cup {Err(e) : e \in FsErrors}
      [] OTHER -> {Ok(Unit)}

\* ------------------------------------------------------------ the session
\* Session's fields that dispatch reads and writes
Session(i, d, ma, mi) ==
    [initialized |-> i, destroyed |-> d, proto_major |-> ma, proto_minor |-> mi]

\* ------------------------------------------------------------ the replies
RECURSIVE SumU32(_, _)
\* data_iovs.iter().fold(0u32, |l, iov| l + iov.iov_len as u32)
SumU32(l, iovs) ==
    IF iovs = << >> THEN l
    ELSE SumU32(l + Head(iovs), Tail(iovs))

\* send with the header's own size left out of len
send_PayloadLen(rq, err, data) ==
    [ fd     |-> rq.fd,
      len    |-> SumU32(0, as_iovecs(data)),
      error  |-> err,
      unique |-> rq.msg.unique,
      iov    |-> <<OutHeaderSize>> \o as_iovecs(data),
      data   |-> data ]

\* the frame one writev of send puts on the channel: the out header's
\* fields, the descriptor written to, and the regions of the vectored write
send(rq, err, data) ==
    [ fd     |-> rq.fd,
      len    |-> OutHeaderSize + SumU32(0, as_iovecs(data)),
      error  |-> err,
      unique |-> rq.msg.unique,
      iov    |-> <<OutHeaderSize>> \o as_iovecs(data),
      data   |-> data ]

reply(rq, result) ==
    IF IsOk(result) THEN send(rq, 0, result.ok)
    ELSE send(rq, -(result.err), Unit)

\* reply_error passing the code on without negating it
reply_error_NoNegate(rq, err) == send(rq, err, Unit)

reply_error(rq, err) == send(rq, -err, Unit)

\* -------------------------------------------------------------- dispatch
\* one call of a filesystem method and what it returned
Call(method, ret) == [method |-> method, ret |-> ret]

\* what one dispatch does: the session it leaves, the filesystem methods
\* it called, the frames it wrote, and whether the task failed (assert!)
Outcome(se, called, sent, failed) ==
    [se |-> se, called |-> called, sent |-> sent, failed |-> failed]

\* arg.major < 7 || (arg.major < 7 && arg.minor < 6)
InitRejected(arg) ==
    arg.major < 7 \/ (arg.major < 7 /\ arg.minor < 6)

\* the FUSE_INIT arm without "se.initialized = true"
DispatchInit_NoFlag(rq, se, fs) ==
    LET arg == rq.msg IN
    IF InitRejected(arg)
    THEN Outcome(se, << >>, << reply_error(rq, EPROTO) >>, FALSE)
    ELSE LET se1 == [se EXCEPT !.proto_major = arg.major,
                               !.proto_minor = arg.minor]
         IN IF ~IsOk(fs)
            THEN Outcome(se1, << Call("init", fs) >>, << reply_error(rq, fs.err) >>,
                         FALSE)
            ELSE LET out == [kind |-> "fuse_init_out", len |-> InitOutSize,
                             major |-> "FUSE_KERNEL_VERSION",
                             minor |-> "FUSE_KERNEL_MINOR_VERSION",
                             max_readahead |-> arg.max_readahead,
                             flags |-> INIT_FLAGS,
                             max_write |-> MAX_WRITE_SIZE]
                 IN Outcome(se1, << Call("init", fs) >>,
                            << reply(rq, Ok(out)) >>, FALSE)

\* FUSE_INIT arm; fs is what se.filesystem.init() returns
DispatchInit(rq, se, fs) ==
    LET arg == rq.msg IN
    IF InitRejected(arg)
    THEN Outcome(se, << >>, << reply_error(rq, EPROTO) >>, FALSE)
    ELSE LET se1 == [se EXCEPT !.proto_major = arg.major,
                               !.proto_minor = arg.minor]
         IN IF ~IsOk(fs)
            THEN Outcome(se1, << Call("init", fs) >>, << reply_error(rq, fs.err) >>,
                         FALSE)
            ELSE LET out == [kind |-> "fuse_init_out", len |-> InitOutSize,
                             major |-> "FUSE_KERNEL_VERSION",
                             minor |-> "FUSE_KERNEL_MINOR_VERSION",
                             max_readahead |-> arg.max_readahead,
                             flags |-> INIT_FLAGS,
                             max_write |-> MAX_WRITE_SIZE]
                 IN Outcome([se1 EXCEPT !.initialized = TRUE], << Call("init", fs) >>,
                            << reply(rq, Ok(out)) >>, FALSE)

\* "_ if !se.initialized" and "_ if se.destroyed" arms
DispatchInvalid(rq, se) ==
    Outcome(se, << >>, << reply_error(rq, EIO) >>, FALSE)

\* the FUSE_DESTROY arm also taking back the initialized flag
DispatchDestroy_ClearsInit(rq, se) ==
    Outcome([se EXCEPT !.destroyed = TRUE, !.initialized = FALSE],
            << Call("destroy", Ok(Unit)) >>, << reply(rq, Ok(Unit)) >>, FALSE)

\* FUSE_DESTROY arm
DispatchDestroy(rq, se) ==
    Outcome([se EXCEPT !.destroyed = TRUE], << Call("destroy", Ok(Unit)) >>,
            << reply(rq, Ok(Unit)) >>, FALSE)

\* FUSE_FORGET arm: the call, and no reply
DispatchForget(rq, se) ==
    Outcome(se, << Call("forget", Ok(Unit)) >>, << >>, FALSE)

\* the plain arms with RELEASEDIR calling release, the arm it was copied from
DispatchPlain_CopyPaste(rq, se, fs) ==
    Outcome(se,
            << Call(IF rq.msg.opcode = "FUSE_RELEASEDIR" THEN "release"
                    ELSE PlainDispatch[rq.msg.opcode], fs) >>,
            << reply(rq, fs) >>, FALSE)

\* the arms  self.reply(se.filesystem.M(...))
DispatchPlain(rq, se, fs) ==
    Outcome(se, << Call(PlainDispatch[rq.msg.opcode], fs) >>,
            << reply(rq, fs) >>, FALSE)

\* assert!(data.len() == arg.size as uint) of FUSE_WRITE and FUSE_SETXATTR
SpanAssert(arg) == arg.datalen = arg.size

\* FUSE_WRITE arm
DispatchWrite(rq, se, fs) ==
    IF ~SpanAssert(rq.msg) THEN Outcome(se, << >>, << >>, TRUE)
    ELSE LET res == IF IsOk(fs)
                    THEN Ok([kind |-> "fuse_write_out", len |-> WriteOutSize,
                             size |-> fs.ok.n])
                    ELSE fs
         IN Outcome(se, << Call("write", fs) >>, << reply(rq, res) >>, FALSE)

\* FUSE_SETXATTR arm
DispatchSetxattr(rq, se, fs) ==
    IF ~SpanAssert(rq.msg) THEN Outcome(se, << >>, << >>, TRUE)
    ELSE Outcome(se, << Call("setxattr", fs) >>, << reply(rq, fs) >>, FALSE)

\* the GETXATTR match with the fit test off by one (>= for >)
GetxattrReply_OffByOne(rq, fs) ==
    IF IsOk(fs) /\ rq.msg.size = 0
        THEN reply(rq, Ok([kind |-> "fuse_getxattr_out", len |-> GetxattrOutSize,
                           size |-> fs.ok.len]))
    ELSE IF IsOk(fs) /\ fs.ok.len >= rq.msg.size
        THEN reply_error(rq, ERANGE)
    ELSE IF IsOk(fs)
        THEN reply(rq, Ok(fs.ok))
    ELSE reply_error(rq, fs.err)

\* the match on se.filesystem.getxattr(...) of the FUSE_GETXATTR arm
GetxattrReply(rq, fs) ==
    IF IsOk(fs) /\ rq.msg.size = 0
        THEN reply(rq, Ok([kind |-> "fuse_getxattr_out", len |-> GetxattrOutSize,
                           size |-> fs.ok.len]))
    ELSE IF IsOk(fs) /\ fs.ok.len > rq.msg.size
        THEN reply_error(rq, ERANGE)
    ELSE IF IsOk(fs)
        THEN reply(rq, Ok(fs.ok))
    ELSE reply_error(rq, fs.err)

DispatchGetxattr(rq, se, fs) ==
    Outcome(se, << Call("getxattr", fs) >>, << GetxattrReply(rq, fs) >>, FALSE)

\* FUSE_LISTXATTR arm
DispatchListxattr(rq, se, fs) ==
    Outcome(se, << Call("listxattr", fs) >>,
            << IF IsOk(fs) THEN reply_error(rq, ENOSYS)
                           ELSE reply_error(rq, fs.err) >>, FALSE)

\* the final arm only logging the opcode
DispatchUnsupported_Silent(rq, se) ==
    Outcome(se, << >>, << >>, FALSE)

\* the final "_" arm
DispatchUnsupported(rq, se) ==
    Outcome(se, << >>, << reply_error(rq, ENOSYS) >>, FALSE)

\* the match with the FUSE_DESTROY arm ahead of the "!se.initialized" arm
dispatch_DestroyFirst(rq, se, fs) ==
    LET op == rq.msg.opcode IN
    IF op = "FUSE_INIT" THEN DispatchInit(rq, se, fs)
    ELSE IF op = "FUSE_DESTROY" THEN DispatchDestroy(rq, se)
    ELSE IF ~se.initialized THEN DispatchInvalid(rq, se)
    ELSE IF se.destroyed THEN DispatchInvalid(rq, se)
    ELSE IF op = "FUSE_FORGET" THEN DispatchForget(rq, se)
    ELSE IF op = "FUSE_WRITE" THEN DispatchWrite(rq, se, fs)
    ELSE IF op = "FUSE_SETXATTR" THEN DispatchSetxattr(rq, se, fs)
    ELSE IF op = "FUSE_GETXATTR" THEN DispatchGetxattr(rq, se, fs)
    ELSE IF op = "FUSE_LISTXATTR" THEN DispatchListxattr(rq, se, fs)
    ELSE IF op \in PlainOpcodes THEN DispatchPlain(rq, se, fs)
    ELSE DispatchUnsupported(rq, se)

\* the match of dispatch: its guarded arms in source order, then the arm
\* of the opcode
dispatch(rq, se, fs) ==
    LET op == rq.msg.opcode IN
    IF op = "FUSE_INIT" THEN DispatchInit(rq, se, fs)
    ELSE IF ~se.initialized THEN DispatchInvalid(rq, se)
    ELSE IF op = "FUSE_DESTROY" THEN DispatchDestroy(rq, se)
    ELSE IF se.destroyed THEN DispatchInvalid(rq, se)
    ELSE IF op = "FUSE_FORGET" THEN DispatchForget(rq, se)
    ELSE IF op = "FUSE_WRITE" THEN DispatchWrite(rq, se, fs)
    ELSE IF op = "FUSE_SETXATTR" THEN DispatchSetxattr(rq, se, fs)
    ELSE IF op = "FUSE_GETXATTR" THEN DispatchGetxattr(rq, se, fs)
    ELSE IF op = "FUSE_LISTXATTR" THEN DispatchListxattr(rq, se, fs)
    ELSE IF op \in PlainOpcodes THEN DispatchPlain(rq, se, fs)
    ELSE DispatchUnsupported(rq, se)

\* ------------------------------------------------------------------ state
VARIABLES
    initialized, destroyed,     \* Session.initialized, Session.destroyed
    proto_major, proto_minor,   \* Session.proto_major, Session.proto_minor
    initCalls, destroyCalls,    \* times filesystem.init() / destroy() ran
    failed,                     \* the task failed on an assert!
    data,                       \* Request.data: its length and decoded content
    fd,                         \* Request.fd
    capacity,                   \* capacity of Request.data
    last,                       \* the Request's latest call and its result
    pre,                        \* the session as the latest dispatch found it
    called,                     \* filesystem methods the Request's latest call made
    sent                        \* frames the Request's latest call wrote to the channel

vars == <<initialized, destroyed, proto_major, proto_minor, initCalls,
          destroyCalls, failed, data, fd, capacity, last, pre, called, sent>>

Requests == DOMAIN data

None == [tag |-> "None"]
Some(x) == [tag |-> "Some", val |-> x]

\* descriptors of the channel
Fds == {3}
\* errno values libc::read fails with (EINTR, ENODEV)
ReadErrnos == {4, 19}
\* size of the argument block of a message that has one
ArgLen == 8

HeaderOnly == {"FUSE_GETATTR", "FUSE_READLINK", "FUSE_STATFS", "FUSE_GETXTIMES",
               "FUSE_DESTROY"} \cup UnhandledOpcodes

\* bytes the kernel hands over for message m
MsgLen(m) ==
    IF m.opcode \in HeaderOnly THEN InHeaderSize
    ELSE InHeaderSize + ArgLen + m.datalen

\* what libc::read returns when it does not deliver a whole message: an
\* error, or a read shorter than the header
ReadFailures == {-1, 0, InHeaderSize - 1}

TheSession == Session(initialized, destroyed, proto_major, proto_minor)
NoSession == [initialized |-> "none"]

\* Request::new for each Request of rs, and a fresh Session
InitWith(rs) ==
    /\ initialized = FALSE
    /\ destroyed = FALSE
    /\ proto_major = 0
    /\ proto_minor = 0
    /\ initCalls = 0
    /\ destroyCalls = 0
    /\ failed = FALSE
    /\ data = [r \in rs |-> [len |-> 0, msg |-> NoMsg]]
    /\ fd = [r \in rs |-> None]
    /\ capacity = [r \in rs |-> MAX_WRITE_SIZE + 4096]
    /\ last = [r \in rs |-> [op |-> "new"]]
    /\ pre = [r \in rs |-> NoSession]
    /\ called = [r \in rs |-> << >>]
    /\ sent = [r \in rs |-> << >>]

\* the single-threaded loop: one Request, one Session
Init == InitWith({"rq1"})

\* read without the short-read test
ReadResult_NoShortCheck(res, errno) ==
    IF res < 0 THEN Err(errno) ELSE Ok(Unit)

\* the Result of Request::read when libc::read returned res
ReadResult(res, errno) ==
    IF res < 0 THEN Err(errno)
    ELSE IF res < InHeaderSize THEN Err(EIO)
    ELSE Ok(Unit)

\* the length of Request.data after read: clear(), then set_len on success
ReadLen(res) == IF res >= InHeaderSize THEN res ELSE 0

\* Request::read(fd): libc::read returns res (errno set on failure) and, on
\* a whole message, leaves m in the buffer
Read(r, f, res, errno, m) ==
    /\ ~failed
    /\ capacity[r] >= MAX_WRITE_SIZE + 4096
    /\ res <= capacity[r]
    /\ res >= InHeaderSize => res = MsgLen(m)
    /\ data' = [data EXCEPT ![r] =
                    [len |-> ReadLen(res),
                     msg |-> IF res >= InHeaderSize THEN m ELSE NoMsg]]
    /\ fd' = [fd EXCEPT ![r] = Some(f)]
    /\ last' = [last EXCEPT ![r] = [op |-> "read", fd |-> f, ret |-> res,
                                    errno |-> errno,
                                    res |-> ReadResult(res, errno)]]
    /\ pre' = [pre EXCEPT ![r] = NoSession]
    /\ called' = [called EXCEPT ![r] = << >>]
    /\ sent' = [sent EXCEPT ![r] = << >>]
    /\ UNCHANGED <<initialized, destroyed, proto_major, proto_minor, initCalls,
                   destroyCalls, failed, capacity>>

\* how many of the calls in seq are calls of method
Count(seq, method) == Cardinality({i \in DOMAIN seq : seq[i].method = method})

\* all Requests working on one shared buffer and descriptor
RequestOf_Shared(r) ==
    LET q == CHOOSE x \in Requests : data[x].len >= InHeaderSize
    IN [msg |-> data[q].msg, fd |-> fd[q].val]

\* what send takes from the Request: the header in self.data, self.fd.unwrap()
RequestOf(r) == [msg |-> data[r].msg, fd |-> fd[r].val]

\* Request::dispatch(se) with fs the result of the filesystem method it calls
Dispatch(r, fs) ==
    /\ ~failed
    /\ IF data[r].len < InHeaderSize
       THEN \* assert!(self.data.len() >= size_of::<fuse_in_header>())
            /\ failed' = TRUE
            /\ last' = [last EXCEPT ![r] = [op |-> "dispatch"]]
            /\ pre' = [pre EXCEPT ![r] = TheSession]
            /\ called' = [called EXCEPT ![r] = << >>]
            /\ UNCHANGED <<initialized, destroyed, proto_major, proto_minor,
                           initCalls, destroyCalls>>
            /\ sent' = [sent EXCEPT ![r] = << >>]
       ELSE LET rq == RequestOf(r)
                o == dispatch(rq, TheSession, fs)
            IN /\ fs \in FsResults(data[r].msg.opcode)
               /\ initCalls + Count(o.called, "init") <= MaxCalls
               /\ destroyCalls + Count(o.called, "destroy") <= MaxCalls
               /\ initialized' = o.se.initialized
               /\ destroyed' = o.se.destroyed
               /\ proto_major' = o.se.proto_major
               /\ proto_minor' = o.se.proto_minor
               /\ initCalls' = initCalls + Count(o.called, "init")
               /\ destroyCalls' = destroyCalls + Count(o.called, "destroy")
               /\ failed' = o.failed
               /\ last' = [last EXCEPT ![r] = [op |-> "dispatch"]]
               /\ pre' = [pre EXCEPT ![r] = TheSession]
               /\ called' = [called EXCEPT ![r] = o.called]
               /\ sent' = [sent EXCEPT ![r] = o.sent]
    /\ UNCHANGED <<data, fd, capacity>>

AllFsResults == UNION {FsResults(op) : op \in Opcodes}

Next ==
    \/ \E r \in Requests, f \in Fds, m \in Messages :
          Read(r, f, MsgLen(m), 0, m)
    \/ \E r \in Requests, f \in Fds, res \in ReadFailures, e \in ReadErrnos :
          Read(r, f, res, IF res < 0 THEN e ELSE 0, NoMsg)
    \/ \E r \in Requests, fs \in AllFsResults : Dispatch(r, fs)

\* the channel of a kernel that keeps the protocol
Spec == Init /\ [][Next]_vars

\* a channel that also delivers WRITE and SETXATTR messages with a span of
\* the wrong length
ReadMalformed ==
    \E r \in Requests, f \in Fds, m \in MalformedMsgs : Read(r, f, MsgLen(m), 0, m)

NextAny == Next \/ ReadMalformed

SpecAny == Init /\ [][NextAny]_vars

\* the worker pool: two Requests, each with its own buffer, read from one
\* channel and are dispatched, one at a time, against one Session
PoolMessages ==
    { m \in Messages :
        /\ m.opcode \in {"FUSE_INIT", "FUSE_DESTROY", "FUSE_GETATTR"}
        /\ m.opcode = "FUSE_INIT" =>
              (m.major = 7 /\ m.minor = 8 /\ m.max_readahead = 0) }

PoolFds == {3, 4}

InitPool == InitWith({"rq1", "rq2"})

NextPool ==
    \/ \E r \in Requests, f \in PoolFds, m \in PoolMessages :
          Read(r, f, MsgLen(m), 0, m)
    \/ \E r \in Requests, f \in PoolFds, e \in ReadErrnos :
          Read(r, f, -1, e, NoMsg)
    \/ \E r \in Requests, fs \in AllFsResults : Dispatch(r, fs)

SpecPool == InitPool /\ [][NextPool]_vars

\* ----------------------------------------------------------- properties
\* the Request's latest call was a dispatch of the message in its buffer
Dispatched(r) == last[r].op = "dispatch" /\ data[r].len >= InHeaderSize

\* the opcode of the message in the Request's buffer
OpcodeOf(r) == data[r].msg.opcode

\* f is an error reply with code e: a header and nothing else
IsErrorFrame(f, e) ==
    f.error = -e /\ f.iov = <<OutHeaderSize>> /\ f.len = OutHeaderSize

\* the latest dispatch wrote exactly one frame, an error reply with code e
RepliedError(r, e) == Len(sent[r]) = 1 /\ IsErrorFrame(sent[r][1], e)

\* the session is as the latest dispatch found it
SessionUntouched(r) == TheSession = pre[r]

RECURSIVE SeqSum(_)
SeqSum(q) == IF q = << >> THEN 0 ELSE Head(q) + SeqSum(Tail(q))

\* C1: while initialized is false, a dispatch of any opcode but INIT writes
\* one EIO reply, calls no filesystem method, leaves initialized false and
\* destroyed as it was.
C1_BeforeInit ==
    \A r \in Requests :
        (Dispatched(r) /\ ~pre[r].initialized /\ OpcodeOf(r) # "FUSE_INIT")
        => /\ RepliedError(r, EIO)
           /\ called[r] = << >>
           /\ initialized = FALSE
           /\ destroyed = pre[r].destroyed

\* a DESTROY dispatched before any INIT, answered with EIO
C1_Witness ==
    \E r \in Requests :
        /\ Dispatched(r) /\ ~pre[r].initialized
        /\ OpcodeOf(r) = "FUSE_DESTROY"
        /\ RepliedError(r, EIO)

\* C2: once destroyed is true, every opcode dispatched afterwards is
\* answered with one EIO reply.
C2_AfterDestroy ==
    \A r \in Requests :
        (Dispatched(r) /\ pre[r].destroyed) => RepliedError(r, EIO)

\* C3: the destroy hook runs at most once, and exactly once if a DESTROY
\* was dispatched while initialized (which is when destroyed is set).
C3_DestroyOnce ==
    /\ destroyCalls <= 1
    /\ destroyed => destroyCalls = 1

\* C4: the init hook runs at most once over any sequence of messages.
C4_InitOnce == initCalls <= 1

\* C5: every dispatch of a message whose opcode is not FORGET writes
\* exactly one reply to the channel.
C5_OneReply ==
    \A r \in Requests :
        (Dispatched(r) /\ OpcodeOf(r) # "FUSE_FORGET") => Len(sent[r]) = 1

\* C6: a dispatch of FORGET never writes a reply, whatever the session's
\* state.
C6_ForgetSilent ==
    \A r \in Requests :
        (Dispatched(r) /\ OpcodeOf(r) = "FUSE_FORGET") => sent[r] = << >>

\* C7: in every frame written, len is the header size plus the sum of the
\* payload regions' lengths, and the vectored write is the header region
\* followed by exactly the payload's regions.
C7_ReplyLength ==
    \A r \in Requests : \A i \in DOMAIN sent[r] :
        LET f == sent[r][i] IN
        /\ f.iov = <<OutHeaderSize>> \o as_iovecs(f.data)
        /\ f.len = OutHeaderSize + SeqSum(as_iovecs(f.data))
        /\ f.len = SeqSum(f.iov)

\* a success reply whose payload is two regions
C7_Witness ==
    \E r \in Requests :
        /\ Len(sent[r]) = 1
        /\ sent[r][1].error = 0
        /\ Len(sent[r][1].iov) = 3
        /\ sent[r][1].len = OutHeaderSize + 5

\* C8: GETXATTR in an initialized, live session, the filesystem returning
\* a value of length L for buffer size S: S = 0 gives a success reply with
\* size = L and no value bytes; 0 < S < L gives ERANGE; S >= L, S > 0 gives
\* a success reply of exactly the L value bytes; an error is passed on.
C8_GetxattrLaw ==
    \A r \in Requests :
        (Dispatched(r) /\ pre[r].initialized /\ ~pre[r].destroyed
            /\ OpcodeOf(r) = "FUSE_GETXATTR")
        => /\ Len(called[r]) = 1 /\ called[r][1].method = "getxattr"
           /\ Len(sent[r]) = 1
           /\ LET ret == called[r][1].ret
                  S == data[r].msg.size
                  f == sent[r][1]
              IN IF ~IsOk(ret) THEN IsErrorFrame(f, ret.err)
                 ELSE LET L == ret.ok.len IN
                      /\ S = 0 =>
                            /\ f.error = 0
                            /\ f.data.kind = "fuse_getxattr_out"
                            /\ f.data.size = L
                            /\ f.iov = <<OutHeaderSize, GetxattrOutSize>>
                      /\ (S > 0 /\ S < L) => IsErrorFrame(f, ERANGE)
                      /\ (S > 0 /\ S >= L) =>
                            /\ f.error = 0
                            /\ f.data = Bytes(L)
                            /\ f.iov = <<OutHeaderSize, L>>

\* a value that fits its buffer exactly (S = L > 0) sent as it is
C8_Witness ==
    \E r \in Requests :
        /\ Dispatched(r) /\ pre[r].initialized /\ ~pre[r].destroyed
        /\ OpcodeOf(r) = "FUSE_GETXATTR"
        /\ IsOk(called[r][1].ret)
        /\ data[r].msg.size = called[r][1].ret.ok.len
        /\ data[r].msg.size > 0
        /\ sent[r][1].error = 0

\* C9: an INIT with an ABI version below 7.6 is answered with EPROTO, the
\* init hook is not called, initialized and the negotiated version stay.
C9_RejectBelow76 ==
    \A r \in Requests :
        (Dispatched(r) /\ OpcodeOf(r) = "FUSE_INIT"
            /\ (data[r].msg.major < 7
                 \/ (data[r].msg.major = 7 /\ data[r].msg.minor < 6)))
        => /\ RepliedError(r, EPROTO)
           /\ called[r] = << >>
           /\ SessionUntouched(r)

\* C10: an INIT that is not rejected and whose init hook succeeds stores the
\* kernel's major/minor, sets initialized, and writes one success reply with
\* the driver's version, the request's max_readahead, INIT_FLAGS and
\* MAX_WRITE_SIZE.
C10_InitAccepted ==
    \A r \in Requests :
        (Dispatched(r) /\ OpcodeOf(r) = "FUSE_INIT"
            /\ ~InitRejected(data[r].msg)
            /\ \A i \in DOMAIN called[r] : IsOk(called[r][i].ret))
        => /\ Len(called[r]) = 1 /\ called[r][1].method = "init"
           /\ proto_major = data[r].msg.major
           /\ proto_minor = data[r].msg.minor
           /\ initialized = TRUE
           /\ Len(sent[r]) = 1
           /\ LET f == sent[r][1] IN
              /\ f.error = 0
              /\ f.unique = data[r].msg.unique
              /\ f.data.kind = "fuse_init_out"
              /\ f.data.major = "FUSE_KERNEL_VERSION"
              /\ f.data.minor = "FUSE_KERNEL_MINOR_VERSION"
              /\ f.data.max_readahead = data[r].msg.max_readahead
              /\ f.data.flags = INIT_FLAGS
              /\ f.data.max_write = MAX_WRITE_SIZE

\* INIT 7.8 with a non-zero max_readahead accepted in a fresh session
C10_Witness ==
    \E r \in Requests :
        /\ Dispatched(r) /\ OpcodeOf(r) = "FUSE_INIT"
        /\ ~pre[r].initialized
        /\ data[r].msg.major = 7 /\ data[r].msg.minor = 8
        /\ data[r].msg.max_readahead = 65536
        /\ initialized /\ proto_major = 7 /\ proto_minor = 8
        /\ sent[r][1].error = 0

\* the latest dispatch found the session initialized and not destroyed
Live(r) == pre[r].initialized /\ ~pre[r].destroyed

\* C11: initialized and destroyed never go from true to false; initialized
\* becomes true only in a dispatch of INIT whose init hook ran and
\* succeeded, destroyed only in a dispatch of DESTROY.
C11_Monotonic ==
    [][ /\ initialized => initialized'
        /\ destroyed => destroyed'
        /\ (~initialized /\ initialized') =>
              \E r \in Requests :
                 /\ last'[r].op = "dispatch"
                 /\ data'[r].msg.opcode = "FUSE_INIT"
                 /\ data'[r].msg.major >= 7
                 /\ called'[r] = << Call("init", Ok(Unit)) >>
        /\ (~destroyed /\ destroyed') =>
              \E r \in Requests :
                 /\ last'[r].op = "dispatch"
                 /\ data'[r].msg.opcode = "FUSE_DESTROY" ]_vars

\* an INIT dispatched after DESTROY, both flags still true
C11_Witness ==
    \E r \in Requests :
        /\ Dispatched(r) /\ pre[r].destroyed
        /\ OpcodeOf(r) = "FUSE_INIT"
        /\ initialized /\ destroyed

\* C12: once destroyed is true, no dispatch changes initialized, destroyed,
\* proto_major or proto_minor.
C12_FrozenAfterDestroy ==
    \A r \in Requests :
        (Dispatched(r) /\ pre[r].destroyed) => SessionUntouched(r)

\* C13: a SETXATTR whose span length differs from its size field is
\* answered with an error reply, the session is as before and the task
\* goes on serving.
C13_MalformedSetxattr ==
    \A r \in Requests :
        (Dispatched(r) /\ Live(r) /\ OpcodeOf(r) = "FUSE_SETXATTR"
            /\ data[r].msg.datalen # data[r].msg.size)
        => /\ Len(sent[r]) = 1
           /\ sent[r][1].error < 0
           /\ SessionUntouched(r)
           /\ ~failed

\* C14: read has three outcomes: a negative result fails with errno, a
\* result below the header size fails with EIO, any other succeeds with the
\* buffer as long as the bytes read; the capacity stays, the descriptor is
\* fd, nothing is written, and on both failures the buffer is empty.
C14_ReadOutcomes ==
    \A r \in Requests :
        last[r].op = "read"
        => LET n == last[r].ret IN
           /\ n < 0 => (last[r].res = Err(last[r].errno) /\ data[r].len = 0)
           /\ (n >= 0 /\ n < InHeaderSize) =>
                 (last[r].res = Err(EIO) /\ data[r].len = 0)
           /\ n >= InHeaderSize => (last[r].res = Ok(Unit) /\ data[r].len = n)
           /\ capacity[r] = MAX_WRITE_SIZE + 4096
           /\ fd[r] = Some(last[r].fd)
           /\ sent[r] = << >>

\* a read one byte short of a header
C14_Witness ==
    \E r \in Requests :
        /\ last[r].op = "read"
        /\ last[r].ret = InHeaderSize - 1
        /\ last[r].res = Err(EIO)
        /\ data[r].len = 0

\* C15: an error reply is one write of the header alone, error negative and
\* len the header size; an error e returned by a filesystem method is
\* answered with error = -e; a success reply has error = 0.
C15_ErrorReplies ==
    \A r \in Requests :
        /\ \A i \in DOMAIN sent[r] :
              LET f == sent[r][i] IN
              /\ f.error <= 0
              /\ f.error # 0 =>
                    (f.iov = <<OutHeaderSize>> /\ f.len = OutHeaderSize)
              /\ Len(f.iov) > 1 => f.error = 0
        /\ \A i \in DOMAIN called[r] :
              /\ ~IsOk(called[r][i].ret) => RepliedError(r, called[r][i].ret.err)
              /\ (IsOk(called[r][i].ret)
                    /\ OpcodeOf(r) \notin {"FUSE_FORGET", "FUSE_GETXATTR",
                                            "FUSE_LISTXATTR"})
                 => (Len(sent[r]) = 1 /\ sent[r][1].error = 0)

\* a filesystem method failed with ENOENT in a live session
C15_Witness ==
    \E r \in Requests :
        /\ Dispatched(r) /\ Live(r)
        /\ OpcodeOf(r) = "FUSE_LOOKUP"
        /\ called[r] = << Call("lookup", Err(2)) >>
        /\ RepliedError(r, 2)

\* C16: when the init hook of an accepted INIT fails with e, the reply is
\* the error e and the session is as before: initialized not set, the
\* negotiated version not stored.
C16_FailedInit ==
    \A r \in Requests :
        (Dispatched(r) /\ OpcodeOf(r) = "FUSE_INIT"
            /\ Len(called[r]) = 1 /\ ~IsOk(called[r][1].ret))
        => /\ RepliedError(r, called[r][1].ret.err)
           /\ SessionUntouched(r)

\* the filesystem method each recognized opcode stands for
MatchingMethod ==
    [ FUSE_LOOKUP |-> "lookup", FUSE_GETATTR |-> "getattr",
      FUSE_SETATTR |-> "setattr", FUSE_READLINK |-> "readlink",
      FUSE_MKNOD |-> "mknod", FUSE_MKDIR |-> "mkdir",
      FUSE_UNLINK |-> "unlink", FUSE_RMDIR |-> "rmdir",
      FUSE_SYMLINK |-> "symlink", FUSE_RENAME |-> "rename",
      FUSE_LINK |-> "link", FUSE_OPEN |-> "open", FUSE_READ |-> "read",
      FUSE_WRITE |-> "write", FUSE_FLUSH |-> "flush",
      FUSE_RELEASE |-> "release", FUSE_FSYNC |-> "fsync",
      FUSE_OPENDIR |-> "opendir", FUSE_READDIR |-> "readdir",
      FUSE_RELEASEDIR |-> "releasedir", FUSE_FSYNCDIR |-> "fsyncdir",
      FUSE_STATFS |-> "statfs", FUSE_SETXATTR |-> "setxattr",
      FUSE_GETXATTR |-> "getxattr", FUSE_LISTXATTR |-> "listxattr",
      FUSE_REMOVEXATTR |-> "removexattr", FUSE_ACCESS |-> "access",
      FUSE_BMAP |-> "bmap", FUSE_SETVOLNAME |-> "setvolname",
      FUSE_EXCHANGE |-> "exchange", FUSE_GETXTIMES |-> "getxtimes" ]

C18_Unsupported ==
    \A r \in Requests :
        (Dispatched(r) /\ Live(r) /\ OpcodeOf(r) \in UnhandledOpcodes)
        => /\ RepliedError(r, ENOSYS)
           /\ called[r] = << >>
           /\ SessionUntouched(r)
           /\ ~failed

\* FUSE_CREATE answered with ENOSYS in a live session
C18_Witness ==
    \E r \in Requests :
        /\ Dispatched(r) /\ Live(r)
        /\ OpcodeOf(r) = "FUSE_CREATE"
        /\ RepliedError(r, ENOSYS)

\* C19: every frame a Request writes carries the unique id of the message
\* that Request read last and goes to the descriptor that read bound, also
\* when several Requests interleave their reads and dispatches.
C19_OwnUniqueAndFd ==
    \A r \in Requests : \A i \in DOMAIN sent[r] :
        /\ sent[r][i].unique = data[r].msg.unique
        /\ fd[r] = Some(sent[r][i].fd)

\* two Requests, each answered its own message on its own descriptor
C19_Witness ==
    /\ Cardinality(Requests) = 2
    /\ \A r \in Requests : Len(sent[r]) = 1
    /\ sent["rq1"][1].unique # sent["rq2"][1].unique
    /\ sent["rq1"][1].fd # sent["rq2"][1].fd

\* C20: destroyed implies initialized in every state reachable from a fresh
\* session.
C20_DestroyedImpliesInitialized == destroyed => initialized

\* a session destroyed by its one DESTROY
C20_Witness == destroyed /\ initialized /\ destroyCalls = 1

====
